---- MODULE Spec2Model ----
(***************************************************************************)
(* Model of the interview lifecycle of the repository: the Start, Message, *)
(* Complete and Get-session route handlers (app/api/interview/...), the    *)
(* store functions they call (lib/db/sessions.ts) and the orchestration    *)
(* functions (lib/orchestration/interview.ts, role-based variant).         *)
(*                                                                         *)
(* Every handler is an async function: each awaited store call is one      *)
(* atomic step, and the handlers of concurrent requests interleave between *)
(* their steps.  The work a handler does between two store calls (checks,  *)
(* building a message and reading the clock, the call of the Gateway) is   *)
(* part of the step of the store call that follows it.                     *)
(***************************************************************************)
EXTENDS Integers, Sequences, FiniteSets, TLC

(***************************************************************************)
(* Bounds of the model.                                                    *)
(***************************************************************************)
MaxMessages == 1      \* Message requests that may pass the checks over a run
MaxRacing == 3        \* the same, over a run of Message requests only
MaxExchanges == 6     \* exchanges in the longest stored interview
MaxSends == 9         \* messages the page sends over a run
MaxFaults == 1        \* of these, the ones that fail
MaxTicks == 6         \* advances of the browser's clock over a run

\* request handlers that may run concurrently
Handlers == {1, 2}

\* ids createSession can generate (session_<time>_<random> in the source)
SessionIds == {"session_1"}
\* a well-formed id that createSession never generated
UnknownId == "session_0"

(***************************************************************************)
(* What requests carry and what the Gateway returns.  "" stands for a      *)
(* missing (falsy) field of the request body.                              *)
(***************************************************************************)
RoleInputs == {"student", "instructor", "admin", ""}
MessageInputs == {"Hi", ""}
GatewayReplies == {"Could you tell me more about that?"}

(***************************************************************************)
(* Optional values (null / undefined in the source) are sequences of       *)
(* length zero or one.                                                     *)
(***************************************************************************)
Null == <<>>
Some(v) == <<v>>
IsNull(o) == o = <<>>
Get(o) == o[1]

Min(a, b) == IF a < b THEN a ELSE b
Max(a, b) == IF a > b THEN a ELSE b

RECURSIVE Join(_, _)
Join(seq, sep) ==
  IF seq = <<>> THEN ""
  ELSE IF Len(seq) = 1 THEN seq[1]
  ELSE seq[1] \o sep \o Join(Tail(seq), sep)

IsPrefix(a, b) == Len(a) <= Len(b) /\ SubSeq(b, 1, Len(a)) = a

(***************************************************************************)
(* start/route.ts: constants.                                              *)
(***************************************************************************)
FIXED_TOPIC == "AI in Education"

VALID_ROLES == {"student", "instructor", "researcher", "staff"}

ROLE_GREETINGS ==
  [student |-> "Hello! Thank you for taking part in this interview about AI in education. I'm interested in learning about your experiences as a student.",
   instructor |-> "Hello! Thank you for taking the time to share your perspective on AI in education. I'm curious to learn about your experiences as an instructor.",
   researcher |-> "Hello! Thank you for participating in this interview about AI in education. I'd love to hear about your experiences as a researcher.",
   staff |-> "Hello! Thank you for joining this conversation about AI in education. I'm interested in hearing about your experiences as a staff member."]

(***************************************************************************)
(* lib/orchestration/interview.ts (role-based variant): the fixed plans.   *)
(***************************************************************************)
INTERVIEW_PLANS ==
  [student |->
     [objectives |-> <<
        "Understand how students currently use AI tools in their academic work",
        "Explore the impact of AI on learning and study habits",
        "Identify concerns about AI and academic integrity",
        "Gather perspectives on AI's future role in education">>,
      questions |-> <<
        "First, tell me a bit about yourself - are you an undergraduate or graduate student, and what's your field of study?",
        "How do you currently use AI tools like ChatGPT, Claude, or other AI assistants in your coursework or studies?",
        "How has the availability of AI tools affected the way you learn or approach assignments?",
        "What concerns, if any, do you have about AI in relation to academic integrity or your own learning?",
        "How do you think AI will change education in your field over the next few years?",
        "What kind of guidance or support around AI would be helpful from your institution or instructors?">>,
      focusAreas |-> <<
        "Current AI usage patterns",
        "Learning impact and study habits",
        "Academic integrity concerns",
        "Future expectations",
        "Institutional support needs">>],
   instructor |->
     [objectives |-> <<
        "Understand how instructors are incorporating AI into their teaching",
        "Explore approaches to AI policies and academic integrity",
        "Identify challenges in adapting curriculum for the AI era",
        "Gather perspectives on resources and support needs">>,
      questions |-> <<
        "To start, what courses do you teach and roughly how many students do you work with?",
        "How are you currently incorporating AI tools into your teaching practice, if at all?",
        "How do you address AI use with your students - do you have specific policies or guidelines?",
        "Has the rise of AI changed how you design assignments, assessments, or course materials?",
        "What concerns do you have about AI in your classroom or discipline?",
        "What resources, training, or institutional support would help you integrate AI more effectively in your teaching?">>,
      focusAreas |-> <<
        "Teaching integration practices",
        "Policy and guidelines approaches",
        "Curriculum adaptation",
        "Concerns and challenges",
        "Resource and support needs">>],
   researcher |->
     [objectives |-> <<
        "Understand how researchers are using AI in their work",
        "Explore attitudes toward AI-assisted writing and analysis",
        "Identify perspectives on research integrity and attribution",
        "Gather views on AI's impact on the research landscape">>,
      questions |-> <<
        "Tell me about your research - what's your area of focus and where are you in your career?",
        "How are you currently using AI tools in your research workflow - from literature review to writing?",
        "What's your approach to AI-assisted writing or data analysis in your research?",
        "How do you think about research integrity and attribution when it comes to AI assistance?",
        "How is AI changing your field of research more broadly?",
        "What institutional support or policies around AI in research would be valuable to you?">>,
      focusAreas |-> <<
        "Research workflow integration",
        "AI-assisted writing practices",
        "Research integrity perspectives",
        "Field-level impact",
        "Institutional support needs">>],
   staff |->
     [objectives |-> <<
        "Understand how staff are using AI in their daily work",
        "Explore the impact of AI on roles and workload",
        "Identify challenges in AI adoption and supporting others",
        "Gather perspectives on training and resource needs">>,
      questions |-> <<
        "What's your role and department? What are your main responsibilities?",
        "How are you currently using AI tools in your daily work, if at all?",
        "How has AI changed your role or workload - has it made things easier, more complex, or both?",
        "What challenges have you faced in adopting AI tools or supporting others who use them?",
        "How do you currently support faculty or students who have questions about AI?",
        "What training or resources would help you work more effectively with AI?">>,
      focusAreas |-> <<
        "Daily work integration",
        "Role and workload impact",
        "Adoption challenges",
        "Supporting others",
        "Training and resource needs">>]]

ROLE_LABELS ==
  [student |-> "Student",
   instructor |-> "Instructor/Faculty",
   researcher |-> "Researcher",
   staff |-> "Staff Member"]

getInterviewPlanForRole(role) == INTERVIEW_PLANS[role]

\* the second question of the plan in place of the first
getFirstQuestionForRole_Second(role) == INTERVIEW_PLANS[role].questions[2]

getFirstQuestionForRole(role) == INTERVIEW_PLANS[role].questions[1]

(***************************************************************************)
(* lib/db/sessions.ts: the store.  sessions is the sessions table, a     *)
(* function from the ids of the rows inserted so far to their rows;        *)
(* messages[id] is the rows of the messages table with that session_id,    *)
(* in insertion (serial id) order.  Each operator below is the effect of   *)
(* one awaited store call on the table it writes.                          *)
(***************************************************************************)
\* createSession, at clock time: created_at and updated_at are both time
\* an insert that makes the session open to messages at once
createSession_Interviewing(ss, id, topic, role, time) ==
  [i \in DOMAIN ss \cup {id} |->
     IF i = id
     THEN [topic |-> topic, role |-> role, status |-> "interviewing",
           plan |-> Null, analysis |-> Null,
           cost_tokens |-> 0, cost_amount |-> 0, updated_at |-> time]
     ELSE ss[i]]

createSession(ss, id, topic, role, time) ==
  [i \in DOMAIN ss \cup {id} |->
     IF i = id
     THEN [topic |-> topic, role |-> role, status |-> "planning",
           plan |-> Null, analysis |-> Null,
           cost_tokens |-> 0, cost_amount |-> 0, updated_at |-> time]
     ELSE ss[i]]

\* the trigger update_sessions_updated_at, BEFORE UPDATE ON sessions: every
\* update of a sessions row sets its updated_at to the clock (this value
\* replaces the one the update itself names).  There is no trigger on the
\* messages table.
update_updated_at(ss, sessionId, time) ==
  [i \in DOMAIN ss |-> IF i = sessionId THEN [ss[i] EXCEPT !.updated_at = time] ELSE ss[i]]

\* an update without the filter .eq('id', sessionId)
updateSessionStatus_EveryRow(ss, sessionId, status) ==
  [i \in DOMAIN ss |-> [ss[i] EXCEPT !.status = status]]

updateSessionStatus(ss, sessionId, status) ==
  [i \in DOMAIN ss |-> IF i = sessionId THEN [ss[i] EXCEPT !.status = status] ELSE ss[i]]

saveMessage(ms, sessionId, message) ==
  [ms EXCEPT ![sessionId] = Append(@, message)]

savePlan(ss, sessionId, plan) ==
  [i \in DOMAIN ss |-> IF i = sessionId THEN [ss[i] EXCEPT !.plan = Some(plan)] ELSE ss[i]]

\* the analysis written to the plan column
saveAnalysis_IntoPlan(ss, sessionId, analysis) ==
  [i \in DOMAIN ss |-> IF i = sessionId THEN [ss[i] EXCEPT !.plan = Some(analysis)] ELSE ss[i]]

\* an update of the analysis column that matches no row
saveAnalysis_NoRow(ss, sessionId, analysis) == ss

saveAnalysis(ss, sessionId, analysis) ==
  [i \in DOMAIN ss |-> IF i = sessionId THEN [ss[i] EXCEPT !.analysis = Some(analysis)] ELSE ss[i]]

\* updateCost, first store call: select cost_tokens, cost_amount
updateCostFetch(ss, sessionId) ==
  IF sessionId \in DOMAIN ss
  THEN Some([cost_tokens |-> ss[sessionId].cost_tokens,
             cost_amount |-> ss[sessionId].cost_amount])
  ELSE Null

\* a cost update that also closes the session
updateCostWrite_Closing(ss, sessionId, fetched, tokens, cost) ==
  [i \in DOMAIN ss |->
     IF i = sessionId
     THEN [ss[i] EXCEPT !.cost_tokens = fetched.cost_tokens + tokens,
                        !.cost_amount = fetched.cost_amount + cost,
                        !.status = "completed"]
     ELSE ss[i]]

\* a cost update that increments the stored totals in one store call
updateCostWrite_Atomic(ss, sessionId, fetched, tokens, cost) ==
  [i \in DOMAIN ss |->
     IF i = sessionId
     THEN [ss[i] EXCEPT !.cost_tokens = ss[i].cost_tokens + tokens,
                        !.cost_amount = ss[i].cost_amount + cost]
     ELSE ss[i]]

\* updateCost, second store call: write the fetched totals plus the increment
updateCostWrite(ss, sessionId, fetched, tokens, cost) ==
  [i \in DOMAIN ss |->
     IF i = sessionId
     THEN [ss[i] EXCEPT !.cost_tokens = fetched.cost_tokens + tokens,
                        !.cost_amount = fetched.cost_amount + cost]
     ELSE ss[i]]

\* getSession, first store call: the session row, null when there is none
getSessionRow(ss, sessionId) ==
  IF sessionId \in DOMAIN ss THEN Some(ss[sessionId]) ELSE Null

\* The results order('timestamp', ascending) may return for the given rows
\* (indices in S left to place): every arrangement with non-decreasing
\* timestamps.  The query names no second sort key, so rows with equal
\* timestamps come in any order.
RECURSIVE OrderedByTimestamp(_, _)
OrderedByTimestamp(rows, S) ==
  IF S = {} THEN {<<>>}
  ELSE LET first == {i \in S : \A j \in S : rows[i].timestamp <= rows[j].timestamp}
       IN UNION {{<<rows[i]>> \o rest : rest \in OrderedByTimestamp(rows, S \ {i})} : i \in first}

\* getSession, second store call: the possible results of the messages query
getSessionMessages(ms, sessionId) ==
  OrderedByTimestamp(ms[sessionId], DOMAIN ms[sessionId])

\* getSession, the InterviewSession built from the row and the messages
buildSession(sessionId, row, transcript) ==
  [id |-> sessionId,
   topic |-> row.topic,
   role |-> row.role,
   status |-> row.status,
   updatedAt |-> row.updated_at,
   transcript |-> transcript,
   plan |-> row.plan,
   analysis |-> row.analysis,
   cost |-> IF row.cost_tokens > 0
            THEN Some([tokens |-> row.cost_tokens, cost |-> row.cost_amount])
            ELSE Null]

\* getSession(sessionId): the values the call may return, null when there is
\* no row.  The two queries are taken as one snapshot of the store: no store
\* call deletes a row, and a handler uses of the row only the status and the
\* plan it read.
getSession(ss, ms, sessionId) ==
  LET row == getSessionRow(ss, sessionId)
  IN IF IsNull(row) THEN {Null}
     ELSE {Some(buildSession(sessionId, Get(row), transcript)) :
             transcript \in getSessionMessages(ms, sessionId)}

(***************************************************************************)
(* lib/orchestration/interview.ts (role-based variant).                    *)
(*                                                                         *)
(* A text returned by the Gateway for an analysis is a sequence of tokens: *)
(* a fence opening (three backquotes, json, newline), a fence closing      *)
(* (newline, three backquotes), "{", "}",                                  *)
(* "analysis" (the members of a well-formed analysis object) and "prose"   *)
(* (any other text, holding no brace and no fence).                        *)
(***************************************************************************)
DEFAULT_MODEL == "gpt-4o"

FenceOpen == "<fence-open>"
FenceClose == "<fence-close>"

\* The analysis object the members token "analysis" stands for.
\* completionRate is kept in hundredths (0.95 is 95).
ParsedAnalysis ==
  [summary |-> "The interviewee uses AI tools regularly.",
   keyInsights |-> <<"insight1", "insight2", "insight3">>,
   depthScore |-> 4,
   completionRate |-> 95,
   recommendations |-> Some(<<"recommendation1", "recommendation2">>)]

\* JSON.parse: the value of a well-formed text, Null where the source throws
JSONparse(text) ==
  IF text = <<"{", "analysis", "}">> THEN Some(ParsedAnalysis) ELSE Null

\* content.match(fence-open ([\s\S]*?) fence-close): <<whole match, group 1>> or Null
MatchFence(content) ==
  LET opens == {i \in DOMAIN content :
                  content[i] = FenceOpen
                  /\ \E j \in DOMAIN content : j > i /\ content[j] = FenceClose}
  IN IF opens = {} THEN Null
     ELSE LET i == CHOOSE k \in opens : \A m \in opens : k <= m
              j == CHOOSE k \in DOMAIN content :
                     /\ k > i /\ content[k] = FenceClose
                     /\ \A m \in DOMAIN content :
                          (m > i /\ content[m] = FenceClose) => k <= m
          IN Some(<<SubSeq(content, i, j), SubSeq(content, i + 1, j - 1)>>)

\* content.match(/\{[\s\S]*\}/): <<whole match>> or Null
MatchBraces(content) ==
  LET opens == {i \in DOMAIN content :
                  content[i] = "{" /\ \E j \in DOMAIN content : j > i /\ content[j] = "}"}
  IN IF opens = {} THEN Null
     ELSE LET i == CHOOSE k \in opens : \A m \in opens : k <= m
              j == CHOOSE k \in DOMAIN content :
                     content[k] = "}" /\ \A m \in DOMAIN content : content[m] = "}" => m <= k
          IN Some(<<SubSeq(content, i, j)>>)

\* jsonMatch ? (jsonMatch[1] || jsonMatch[0]) : content
ExtractJsonStr(content) ==
  LET fence == MatchFence(content)
      jsonMatch == IF ~IsNull(fence) THEN fence ELSE MatchBraces(content)
  IN IF IsNull(jsonMatch) THEN content
     ELSE LET m == Get(jsonMatch)
          IN IF Len(m) >= 2 /\ m[2] # <<>> THEN m[2] ELSE m[1]

\* a filter that keeps only the user messages an assistant message follows
userResponses_Answered(transcript) ==
  LET answered == {i \in DOMAIN transcript :
                     /\ transcript[i].role = "user"
                     /\ \E j \in DOMAIN transcript : j > i /\ transcript[j].role = "assistant"}
  IN SelectSeq([i \in DOMAIN transcript |->
                  IF i \in answered THEN transcript[i]
                  ELSE [transcript[i] EXCEPT !.role = "unanswered"]],
               LAMBDA msg : msg.role = "user")

userResponses(transcript) == SelectSeq(transcript, LAMBDA msg : msg.role = "user")

\* analyzeInterview: does the call reach model.invoke?
\* the minimal-engagement branch taken for one response only
analyzeNeedsGateway_AboveOne(transcript) == Len(userResponses(transcript)) > 1

analyzeNeedsGateway(transcript) == Len(userResponses(transcript)) > 2

\* analyzeInterview, the branches that return before the Gateway call
analyzeWithoutGateway(role, transcript) ==
  LET roleLabel == ROLE_LABELS[role]
      n == Len(userResponses(transcript))
  IN IF n = 0
     THEN [summary |-> "Interview with a " \o roleLabel \o " was started but not completed. No responses were provided.",
           keyInsights |-> <<"Interview incomplete - no responses recorded">>,
           depthScore |-> 0,
           completionRate |-> 0,
           recommendations |-> Some(<<"Complete the interview by responding to the interviewer's questions">>)]
     ELSE [summary |-> "Interview with a " \o roleLabel \o " was briefly started but ended early with minimal engagement.",
           keyInsights |-> <<"Interview incomplete - only minimal responses provided",
                             "Insufficient data to extract meaningful insights about AI use in education">>,
           depthScore |-> 1,
           completionRate |-> Min(20, n * 10),
           recommendations |-> Some(<<"Continue the interview to explore AI experiences more thoroughly">>)]

\* a catch block that reports minimal engagement in place of the fallback
analyzeFromGateway_Minimal(role, content) ==
  LET parsed == JSONparse(ExtractJsonStr(content))
  IN IF ~IsNull(parsed) THEN Get(parsed)
     ELSE [summary |-> "Interview with a " \o ROLE_LABELS[role] \o " was briefly started but ended early with minimal engagement.",
           keyInsights |-> <<"Interview incomplete - only minimal responses provided">>,
           depthScore |-> 1,
           completionRate |-> 20,
           recommendations |-> Null]

\* analyzeInterview, after model.invoke returned content
analyzeFromGateway(role, content) ==
  LET roleLabel == ROLE_LABELS[role]
      parsed == JSONparse(ExtractJsonStr(content))
  IN IF ~IsNull(parsed) THEN Get(parsed)
     ELSE [summary |-> "Interview with a " \o roleLabel \o " completed. The conversation explored their experiences with AI in education.",
           keyInsights |-> <<"Interview completed successfully">>,
           depthScore |-> 3,
           completionRate |-> 80,
           recommendations |-> Null]

\* calculateCost: rates in micro-dollars per 1K tokens
pricing ==
  [m \in {"gpt-4o", "gpt-4o-mini", "gpt-4-turbo", "gpt-4", "gpt-3.5-turbo"} |->
     CASE m = "gpt-4o" -> [input |-> 5000, output |-> 15000]
       [] m = "gpt-4o-mini" -> [input |-> 150, output |-> 600]
       [] m = "gpt-4-turbo" -> [input |-> 10000, output |-> 30000]
       [] m = "gpt-4" -> [input |-> 30000, output |-> 60000]
       [] m = "gpt-3.5-turbo" -> [input |-> 1500, output |-> 2000]]

\* calculateCost(tokens, modelName), with tokens = chars / 4.  The result is
\* (tokens / 2) * input / 1000 + (tokens / 2) * output / 1000 micro-dollars,
\* that is chars * (input + output) / 8000; it is kept in units of 1/8000
\* micro-dollar, in which every amount is an integer.
calculateCost(chars, modelName) ==
  LET rates == IF modelName \in DOMAIN pricing THEN pricing[modelName] ELSE pricing["gpt-4o"]
  IN chars * rates.input + chars * rates.output

\* Math.round(chars / 4), chars >= 0
MathRoundQuarter(chars) == (chars + 2) \div 4

\* The texts the Gateway may return for the analysis prompt.
GatewayAnalysisTexts ==
  {<<"{", "analysis", "}">>,
   <<FenceOpen, "{", "analysis", "}", FenceClose>>,
   <<"prose", "{", "analysis", "}", "prose">>,
   <<FenceOpen, "prose", FenceClose, "{", "analysis", "}">>,
   <<"prose">>}

(***************************************************************************)
(* State.                                                                  *)
(*   sessions, messages  the two tables of the store                       *)
(*   now       the server clock read by new Date()                         *)
(*   proc      per handler: the request it serves, its position and the    *)
(*             values of the route's local variables                       *)
(*   known     the session ids clients put in requests: those returned by  *)
(*             Start                                                       *)
(*   budget    the Message requests that may still pass the checks: the    *)
(*             bound of the run                                            *)
(*                                                                         *)
(* A handler that has built its response stays at "respond" for one step,  *)
(* holding the status code (and the session snapshot of a 200 response),   *)
(* and is idle again once the response is sent.                            *)
(***************************************************************************)
VARIABLES sessions, messages, now, proc, known, budget, client

vars == <<sessions, messages, now, proc, known, budget, client>>

\* The page (Home) of one browser: its React state after the first render,
\* with the browser's clock (Date.now(), positive), the pending idle timeout
\* (Null, or the time it was set), the fetch in flight (Null, or the request
\* body with the session the running sendMessage closed over) and the count
\* of failed sends (the bound of the run).
Home ==
  [session |-> Null, loading |-> FALSE, interviewStartTime |-> Null,
   showWrapUpPrompt |-> FALSE, showIdleNudge |-> FALSE, isWrapUpMode |-> FALSE,
   idleTimer |-> Null, pending |-> Null, clock |-> 1, faults |-> 0]

IdleProc ==
  [pc |-> "idle", op |-> "none", sessionId |-> "", role |-> "", message |-> "",
   isWrapUp |-> FALSE, session |-> Null, mark |-> 0, assistantResponse |-> "",
   fetched |-> Null, code |-> 0, invocations |-> 0,
   content |-> Null, invoked |-> "none", historyContext |-> Null, promptChars |-> 0]

\* the server starts on an empty store
InitEmpty ==
  /\ sessions = <<>>
  /\ messages = [id \in SessionIds |-> <<>>]
  /\ now = 0
  /\ proc = [p \in Handlers |-> IdleProc]
  /\ known = {}
  /\ budget = MaxMessages
  /\ client = Home

\* The store outlives the server.  HistorySessions and HistoryMessages are the
\* tables after a student started an interview and exchanged two messages
\* with the interviewer, one request after the other, from the empty store.
HistoryId == "session_1"
HistoryReply == CHOOSE text \in GatewayReplies : TRUE

HistorySessions ==
  LET created == createSession(<<>>, HistoryId, FIXED_TOPIC, "student", 0)
      planned == savePlan(created, HistoryId, getInterviewPlanForRole("student"))
      started == updateSessionStatus(planned, HistoryId, "interviewing")
      chars == Len("Hi") + Len(HistoryReply)
      first == updateCostWrite(started, HistoryId, Get(updateCostFetch(started, HistoryId)),
                               MathRoundQuarter(chars), calculateCost(chars, DEFAULT_MODEL))
  IN update_updated_at(
       updateCostWrite(first, HistoryId, Get(updateCostFetch(first, HistoryId)),
                       MathRoundQuarter(chars), calculateCost(chars, DEFAULT_MODEL)),
       HistoryId, 6)

HistoryMessages ==
  LET m0 == [id \in SessionIds |-> <<>>]
      m1 == saveMessage(m0, HistoryId,
              [role |-> "system",
               content |-> "You are conducting an interview about AI use in education. The interviewee is a student. Your objectives are: "
                           \o Join(getInterviewPlanForRole("student").objectives, ", "),
               timestamp |-> 0])
      m2 == saveMessage(m1, HistoryId,
              [role |-> "assistant",
               content |-> ROLE_GREETINGS["student"] \o "\n\n" \o getFirstQuestionForRole("student"),
               timestamp |-> 1])
      m3 == saveMessage(m2, HistoryId, [role |-> "user", content |-> "Hi", timestamp |-> 2])
      m4 == saveMessage(m3, HistoryId,
              [role |-> "assistant", content |-> HistoryReply, timestamp |-> 3])
      m5 == saveMessage(m4, HistoryId, [role |-> "user", content |-> "Hi", timestamp |-> 4])
  IN saveMessage(m5, HistoryId,
       [role |-> "assistant", content |-> HistoryReply, timestamp |-> 5])

\* the server starts on the store an earlier run left
InitHistory ==
  /\ sessions = HistorySessions
  /\ messages = HistoryMessages
  /\ now = 6
  /\ proc = [p \in Handlers |-> IdleProc]
  /\ known = {HistoryId}
  /\ budget = MaxMessages
  /\ client = Home

Init == InitEmpty \/ InitHistory

\* a request is served by the first handler that is idle
Free(p) ==
  /\ proc[p].pc = "idle"
  /\ \A q \in Handlers : q < p => proc[q].pc # "idle"

\* the handler p, serving request r, returns NextResponse.json(..., {status: code})
Respond(p, r, code) ==
  proc' = [proc EXCEPT ![p] =
             [IdleProc EXCEPT !.pc = "respond", !.op = r.op, !.sessionId = r.sessionId,
                              !.role = r.role, !.message = r.message, !.code = code,
                              !.invocations = r.invocations, !.invoked = r.invoked]]

\* the handler p goes on to its next await with locals r
Continue(p, r) == proc' = [proc EXCEPT ![p] = r]

\* the response of handler p is sent; Start's response discloses the session id
Return(p) ==
  /\ proc[p].pc = "respond"
  /\ proc' = [proc EXCEPT ![p] = IdleProc]
  /\ known' = IF proc[p].op = "start" /\ proc[p].code = 200
              THEN known \cup {proc[p].sessionId} ELSE known
  /\ UNCHANGED <<sessions, messages, now, budget, client>>

\* ids a client can put in a request: those Start returned, and any other string
Addressable == known \cup {UnknownId}

\* The clock when an awaited insert of a message stamped ts has completed:
\* the round trip to the store takes longer than the clock's resolution.
ClockAfterInsert(ts) == Max(now, ts + 1)

(***************************************************************************)
(* app/api/interview/start/route.ts: POST.                                 *)
(***************************************************************************)
\* line 21: if (!role || !VALID_ROLES.includes(role)) return 400
\* a check of presence only
StartRoleValid_Present(role) == role # ""

StartRoleValid(role) == role # "" /\ role \in VALID_ROLES

\* the system message of line 36-40, stamped ts
systemMessage(role, plan, ts) ==
  [role |-> "system",
   content |-> "You are conducting an interview about AI use in education. The interviewee is a "
               \o role \o ". Your objectives are: " \o Join(plan.objectives, ", "),
   timestamp |-> ts]

\* the greeting of line 44-49, stamped ts
greetingMessage(role, ts) ==
  [role |-> "assistant",
   content |-> ROLE_GREETINGS[role] \o "\n\n" \o getFirstQuestionForRole(role),
   timestamp |-> ts]

\* the request is rejected before any store call
StartReject(p, role) ==
  /\ Free(p)
  /\ ~StartRoleValid(role)
  /\ Respond(p, [IdleProc EXCEPT !.op = "start", !.role = role], 400)
  /\ UNCHANGED <<sessions, messages, now, known, budget, client>>

\* createSession(FIXED_TOPIC, role)
StartCreate(p, role) ==
  /\ Free(p)
  /\ StartRoleValid(role)
  /\ \E id \in SessionIds \ DOMAIN sessions :
        /\ sessions' = createSession(sessions, id, FIXED_TOPIC, role, now)
        /\ Continue(p, [IdleProc EXCEPT !.op = "start", !.role = role, !.sessionId = id,
                                        !.pc = "s_savePlan"])
  /\ UNCHANGED <<messages, now, known, budget, client>>

\* savePlan(sessionId, getInterviewPlanForRole(role)); the system message is
\* then built, stamped with the clock at that moment
StartSavePlan(p) ==
  /\ proc[p].pc = "s_savePlan"
  /\ sessions' = update_updated_at(
                    savePlan(sessions, proc[p].sessionId,
                             getInterviewPlanForRole(proc[p].role)),
                    proc[p].sessionId, now)
  /\ Continue(p, [proc[p] EXCEPT !.pc = "s_saveSystem", !.mark = now])
  /\ UNCHANGED <<messages, now, known, budget, client>>

\* saveMessage(sessionId, systemMessage); the greeting is then built
StartSaveSystem(p) ==
  /\ proc[p].pc = "s_saveSystem"
  /\ LET ts == proc[p].mark
     IN /\ messages' = saveMessage(messages, proc[p].sessionId,
                         systemMessage(proc[p].role, getInterviewPlanForRole(proc[p].role), ts))
        /\ now' = ClockAfterInsert(ts)
        /\ Continue(p, [proc[p] EXCEPT !.pc = "s_saveGreeting", !.mark = ClockAfterInsert(ts)])
  /\ UNCHANGED <<sessions, known, budget, client>>

\* saveMessage(sessionId, greeting)
StartSaveGreeting(p) ==
  /\ proc[p].pc = "s_saveGreeting"
  /\ LET ts == proc[p].mark
     IN /\ messages' = saveMessage(messages, proc[p].sessionId, greetingMessage(proc[p].role, ts))
        /\ now' = ClockAfterInsert(ts)
  /\ Continue(p, [proc[p] EXCEPT !.pc = "s_setStatus", !.mark = 0])
  /\ UNCHANGED <<sessions, known, budget, client>>

\* updateSessionStatus(sessionId, 'interviewing')
StartSetStatus(p) ==
  /\ proc[p].pc = "s_setStatus"
  /\ sessions' = update_updated_at(
                    updateSessionStatus(sessions, proc[p].sessionId, "interviewing"),
                    proc[p].sessionId, now)
  /\ Continue(p, [proc[p] EXCEPT !.pc = "s_getSession"])
  /\ UNCHANGED <<messages, now, known, budget, client>>

\* getSession(sessionId); then the 200 response
StartGetSession(p) ==
  /\ proc[p].pc = "s_getSession"
  /\ \E session \in getSession(sessions, messages, proc[p].sessionId) :
       Respond(p, proc[p], 200)
  /\ UNCHANGED <<sessions, messages, now, known, budget, client>>

(***************************************************************************)
(* app/api/interview/message/route.ts: POST.                               *)
(***************************************************************************)
\* line 9: if (!sessionId || !message) return 400
MessageFieldsPresent(sessionId, message) == sessionId # "" /\ message # ""

\* a status check that stops completed sessions only
MessageStateOk_NotCompleted(session) == session.status # "completed"

\* line 24: if (session.status !== 'interviewing') return 400
MessageStateOk(session) == session.status = "interviewing"

\* line 74: estimatedTokens = (message.length + assistantResponse.length) / 4,
\* given as the number of characters it divides by four
estimatedChars(message, assistantResponse) == Len(message) + Len(assistantResponse)

\* lines 47-50: session.transcript.map(msg => ({role, content}))
conversationHistory(transcript) ==
  [i \in DOMAIN transcript |->
     [role |-> transcript[i].role, content |-> transcript[i].content]]

\* Array.prototype.slice(-k), k > 0: the last k elements, all when there are fewer
sliceLast(array, k) == SubSeq(array, Max(1, Len(array) - k + 1), Len(array))

\* a prompt that carries the whole conversation
historyContext_Whole(history) == history

\* generateInterviewResponse, lines 131-134: the entries of the conversation
\* the prompt carries after "Previous conversation:", each one a line
\* "role: content" of the text
historyContext(history) == sliceLast(history, 10)

\* generateWrapUpResponse: the entries of the conversation its prompt carries
wrapUpHistoryContext(history) == sliceLast(history, 10)

\* array.map(item => "- " + item).join("\n")
Bulleted(array) == Join([i \in DOMAIN array |-> "- " \o array[i]], "\n")

\* entries.map(msg => msg.role + ": " + msg.content).join("\n")
historyText(entries) ==
  Join([i \in DOMAIN entries |-> entries[i].role \o ": " \o entries[i].content], "\n")

\* generateInterviewResponse, lines 131-162: the prompt sent to the Gateway
generateInterviewPrompt(role, plan, history, currentMessage) ==
  "You are conducting an interview about AI use in education. You are speaking with a "
  \o ROLE_LABELS[role] \o ".\n\nInterview Objectives:\n"
  \o Bulleted(plan.objectives)
  \o "\n\nFocus Areas to explore:\n"
  \o Bulleted(plan.focusAreas)
  \o "\n\nPlanned questions to cover (adapt based on conversation flow):\n- "
  \o Join(Tail(plan.questions), "\n- ")
  \o "\n\nPrevious conversation:\n"
  \o historyText(historyContext(history))
  \o "\n\nTheir latest response: " \o currentMessage
  \o "\n\nYour task:\n1. Acknowledge their response warmly and naturally\n2. Ask a thoughtful follow-up that probes deeper into their experience\n3. Draw connections between what they've shared and the focus areas\n4. Keep the conversation flowing naturally - don't interrogate\n5. If they've explored a topic thoroughly, transition to a new area from your planned questions\n6. Be curious and empathetic - this is a conversation, not a survey\n\nRespond with your next question or comment. Be conversational and genuinely interested in their perspective."

\* generateWrapUpResponse: the prompt sent to the Gateway, with wrap-up
\* instructions in place of the probing instructions
generateWrapUpPrompt(role, history, currentMessage) ==
  "You are conducting an interview about AI use in education. You are speaking with a "
  \o ROLE_LABELS[role]
  \o ".\n\nPrevious conversation:\n"
  \o historyText(wrapUpHistoryContext(history))
  \o "\n\nTheir latest response: " \o currentMessage
  \o "\n\nAsk for closing thoughts instead of a new probing question."

\* generateInterviewResponse: the calls of model.invoke it makes for one
\* message: the call of line 165, in no loop and in no try block
generateInterviewResponseCalls(currentMessage) == 1

\* generateWrapUpResponse: the calls of model.invoke it makes for one message
generateWrapUpResponseCalls(currentMessage) == 1

\* the calls of model.invoke the chosen generator makes
gatewayCalls(isWrapUp, currentMessage) ==
  IF isWrapUp THEN generateWrapUpResponseCalls(currentMessage)
  ELSE generateInterviewResponseCalls(currentMessage)

\* a choice of generator that ignores the flag
generatorFor_AlwaysNormal(isWrapUp) == "generateInterviewResponse"

\* line 52: isWrapUp ? generateWrapUpResponse(...) : generateInterviewResponse(...)
generatorFor(isWrapUp) ==
  IF isWrapUp THEN "generateWrapUpResponse" ELSE "generateInterviewResponse"

MessageReject(p, sessionId, message) ==
  /\ Free(p)
  /\ ~MessageFieldsPresent(sessionId, message)
  /\ Respond(p, [IdleProc EXCEPT !.op = "message", !.sessionId = sessionId,
                                 !.message = message], 400)
  /\ UNCHANGED <<sessions, messages, now, known, budget, client>>

\* getSession(sessionId); 404 when there is no session, 400 when its status
\* is not interviewing; the user message is then built, stamped with the
\* clock at that moment
MessageGetSession(p, sessionId, message, isWrapUp) ==
  /\ Free(p)
  /\ MessageFieldsPresent(sessionId, message)
  /\ \E session \in getSession(sessions, messages, sessionId) :
       LET request == [IdleProc EXCEPT !.op = "message", !.sessionId = sessionId,
                                       !.message = message, !.isWrapUp = isWrapUp]
       IN IF IsNull(session) THEN Respond(p, request, 404) /\ UNCHANGED budget
          ELSE IF ~MessageStateOk(Get(session))
          THEN Respond(p, request, 400) /\ UNCHANGED budget
          ELSE /\ budget > 0
               /\ budget' = budget - 1
               /\ Continue(p, [request EXCEPT !.pc = "m_saveUser", !.session = session,
                                              !.mark = now])
  /\ UNCHANGED <<sessions, messages, now, known, client>>

\* saveMessage(sessionId, userMessage); then the plan check of line 38 and
\* the call of the Gateway
MessageSaveUser(p) ==
  /\ proc[p].pc = "m_saveUser"
  /\ LET ts == proc[p].mark
     IN /\ messages' = saveMessage(messages, proc[p].sessionId,
                         [role |-> "user", content |-> proc[p].message, timestamp |-> ts])
        /\ now' = ClockAfterInsert(ts)
        /\ IF IsNull(Get(proc[p].session).plan)
           THEN Respond(p, proc[p], 500)
           ELSE Continue(p, [proc[p] EXCEPT !.pc = "m_gateway", !.mark = ClockAfterInsert(ts)])
  /\ UNCHANGED <<sessions, known, budget, client>>

\* generateWrapUpResponse / generateInterviewResponse: model.invoke returns
\* at some moment ts, the assistant message is built and stamped, and
\* saveMessage(sessionId, assistantMessage) inserts it
MessageSaveAssistant(p) ==
  /\ proc[p].pc = "m_gateway"
  /\ \E text \in GatewayReplies, ts \in proc[p].mark..now :
       /\ messages' = saveMessage(messages, proc[p].sessionId,
                        [role |-> "assistant", content |-> text, timestamp |-> ts])
       /\ now' = ClockAfterInsert(ts)
       /\ Continue(p, [proc[p] EXCEPT !.pc = "m_costFetch", !.assistantResponse = text,
                                      !.isWrapUp = FALSE, !.session = Null, !.mark = 0,
                                      !.invocations =
                                         gatewayCalls(proc[p].isWrapUp, proc[p].message),
                                      !.invoked = generatorFor(proc[p].isWrapUp),
                                      !.historyContext =
                                         LET history == conversationHistory(
                                                          Get(proc[p].session).transcript)
                                         IN Some(IF proc[p].isWrapUp
                                                 THEN wrapUpHistoryContext(history)
                                                 ELSE historyContext(history)),
                                      !.promptChars =
                                         LET session == Get(proc[p].session)
                                             history == conversationHistory(session.transcript)
                                         IN Len(IF proc[p].isWrapUp
                                                THEN generateWrapUpPrompt(
                                                       session.role, history, proc[p].message)
                                                ELSE generateInterviewPrompt(
                                                       session.role, Get(session.plan),
                                                       history, proc[p].message))])
  /\ UNCHANGED <<sessions, known, budget, client>>

\* model.invoke throws: the catch block answers 500
MessageGatewayFails(p) ==
  /\ proc[p].pc = "m_gateway"
  /\ Respond(p, [proc[p] EXCEPT !.invocations =
                                    gatewayCalls(proc[p].isWrapUp, proc[p].message),
                                 !.invoked = generatorFor(proc[p].isWrapUp)], 500)
  /\ UNCHANGED <<sessions, messages, now, known, budget, client>>

\* updateCost, the select
MessageCostFetch(p) ==
  /\ proc[p].pc = "m_costFetch"
  /\ LET fetched == updateCostFetch(sessions, proc[p].sessionId)
     IN IF IsNull(fetched)
        THEN Respond(p, proc[p], 500)
        ELSE Continue(p, [proc[p] EXCEPT !.pc = "m_costWrite", !.fetched = fetched,
                                         !.historyContext = Null])
  /\ UNCHANGED <<sessions, messages, now, known, budget, client>>

\* updateCost, the update
MessageCostWrite(p) ==
  /\ proc[p].pc = "m_costWrite"
  /\ LET chars == estimatedChars(proc[p].message, proc[p].assistantResponse)
     IN sessions' = update_updated_at(
                      updateCostWrite(sessions, proc[p].sessionId, Get(proc[p].fetched),
                                      MathRoundQuarter(chars),
                                      calculateCost(chars, DEFAULT_MODEL)),
                      proc[p].sessionId, now)
  /\ Continue(p, [proc[p] EXCEPT !.pc = "m_getSession", !.fetched = Null,
                                 !.message = "", !.assistantResponse = "",
                                 !.promptChars = 0])
  /\ UNCHANGED <<messages, now, known, budget, client>>

\* getSession(sessionId) of line 78; then the 200 response
MessageGetUpdated(p) ==
  /\ proc[p].pc = "m_getSession"
  /\ \E session \in getSession(sessions, messages, proc[p].sessionId) :
       Respond(p, proc[p], 200)
  /\ UNCHANGED <<sessions, messages, now, known, budget, client>>

(***************************************************************************)
(* app/api/interview/complete/route.ts: POST.                              *)
(***************************************************************************)
\* line 104: if (!sessionId) return 400
CompleteFieldsPresent(sessionId) == sessionId # ""

\* a route without the plan check
CompleteAccepts_Any(session) == TRUE

\* the checks a found session passes before the first write (line 119):
\* only the plan is looked at
CompleteAccepts(session) == ~IsNull(session.plan)

CompleteReject(p, sessionId) ==
  /\ Free(p)
  /\ ~CompleteFieldsPresent(sessionId)
  /\ Respond(p, [IdleProc EXCEPT !.op = "complete", !.sessionId = sessionId], 400)
  /\ UNCHANGED <<sessions, messages, now, known, budget, client>>

\* getSession(sessionId); 404 when there is no session, 500 when it has no plan
CompleteGetSession(p, sessionId) ==
  /\ Free(p)
  /\ CompleteFieldsPresent(sessionId)
  /\ \E session \in getSession(sessions, messages, sessionId) :
       LET request == [IdleProc EXCEPT !.op = "complete", !.sessionId = sessionId]
       IN IF IsNull(session) THEN Respond(p, request, 404)
          ELSE IF ~CompleteAccepts(Get(session)) THEN Respond(p, request, 500)
          ELSE Continue(p, [request EXCEPT !.pc = "c_setAnalyzing", !.session = session])
  /\ UNCHANGED <<sessions, messages, now, known, budget, client>>

\* updateSessionStatus(sessionId, 'analyzing')
CompleteSetAnalyzing(p) ==
  /\ proc[p].pc = "c_setAnalyzing"
  /\ sessions' = update_updated_at(
                    updateSessionStatus(sessions, proc[p].sessionId, "analyzing"),
                    proc[p].sessionId, now)
  /\ Continue(p, [proc[p] EXCEPT !.pc = "c_analyze"])
  /\ UNCHANGED <<messages, now, known, budget, client>>

\* a count of model.invoke calls that asks the Gateway again after its answer
analyzeInvocations_Retry(transcript) == IF analyzeNeedsGateway(transcript) THEN 2 ELSE 0

\* the number of model.invoke calls analyzeInterview makes: the returns of
\* lines 180 and 191 come before the only call, at line 233
analyzeInvocations(transcript) == IF analyzeNeedsGateway(transcript) THEN 1 ELSE 0

\* the runs analyzeInterview(plan, transcript, DEFAULT_MODEL, role) may take:
\* the text the Gateway returned (Null when it was not called) and the
\* analysis returned
analyzeInterview(role, transcript) ==
  IF analyzeNeedsGateway(transcript)
  THEN {[content |-> Some(content), analysis |-> analyzeFromGateway(role, content)] :
          content \in GatewayAnalysisTexts}
  ELSE {[content |-> Null, analysis |-> analyzeWithoutGateway(role, transcript)]}

\* analyzeInterview returns; saveAnalysis(sessionId, analysis)
CompleteSaveAnalysis(p) ==
  /\ proc[p].pc = "c_analyze"
  /\ \E run \in analyzeInterview(Get(proc[p].session).role,
                                 Get(proc[p].session).transcript) :
       /\ sessions' = update_updated_at(
                         saveAnalysis(sessions, proc[p].sessionId, run.analysis),
                         proc[p].sessionId, now)
       /\ Continue(p, [proc[p] EXCEPT
                         !.pc = "c_setCompleted", !.session = Null, !.content = run.content,
                         !.invocations = analyzeInvocations(Get(proc[p].session).transcript)])
  /\ UNCHANGED <<messages, now, known, budget, client>>

\* analyzeInterview: model.invoke throws: the catch block answers 500
CompleteGatewayFails(p) ==
  /\ proc[p].pc = "c_analyze"
  /\ analyzeNeedsGateway(Get(proc[p].session).transcript)
  /\ Respond(p, [proc[p] EXCEPT
                  !.invocations = analyzeInvocations(Get(proc[p].session).transcript)], 500)
  /\ UNCHANGED <<sessions, messages, now, known, budget, client>>

\* updateSessionStatus(sessionId, 'completed')
CompleteSetCompleted(p) ==
  /\ proc[p].pc = "c_setCompleted"
  /\ sessions' = update_updated_at(
                    updateSessionStatus(sessions, proc[p].sessionId, "completed"),
                    proc[p].sessionId, now)
  /\ Continue(p, [proc[p] EXCEPT !.pc = "c_getSession", !.content = Null])
  /\ UNCHANGED <<messages, now, known, budget, client>>

\* getSession(sessionId) of line 138; then the 200 response
CompleteGetUpdated(p) ==
  /\ proc[p].pc = "c_getSession"
  /\ \E session \in getSession(sessions, messages, proc[p].sessionId) :
       Respond(p, proc[p], 200)
  /\ UNCHANGED <<sessions, messages, now, known, budget, client>>

(***************************************************************************)
(* app/api/sessions/[sessionId]/route.ts: GET (Get-session).               *)
(***************************************************************************)
\* getSession(sessionId); 404 when there is no session, else the 200 response
ReadSession(p, sessionId) ==
  /\ Free(p)
  /\ \E session \in getSession(sessions, messages, sessionId) :
       LET request == [IdleProc EXCEPT !.op = "get", !.sessionId = sessionId]
       IN IF IsNull(session) THEN Respond(p, request, 404)
          ELSE Respond(p, request, 200)
  /\ UNCHANGED <<sessions, messages, now, known, budget, client>>

(***************************************************************************)
(* The system: an idle handler takes a request; a busy handler takes its   *)
(* next step.                                                              *)
(***************************************************************************)
Next ==
  \E p \in Handlers :
    \/ \E role \in RoleInputs : StartReject(p, role)
    \/ \E role \in RoleInputs : StartCreate(p, role)
    \/ StartSavePlan(p)
    \/ StartSaveSystem(p)
    \/ StartSaveGreeting(p)
    \/ StartSetStatus(p)
    \/ StartGetSession(p)
    \/ \E sessionId \in Addressable \cup {""}, message \in MessageInputs :
         MessageReject(p, sessionId, message)
    \/ \E sessionId \in Addressable, message \in MessageInputs, isWrapUp \in BOOLEAN :
         MessageGetSession(p, sessionId, message, isWrapUp)
    \/ MessageSaveUser(p)
    \/ MessageSaveAssistant(p)
    \/ MessageGatewayFails(p)
    \/ MessageCostFetch(p)
    \/ MessageCostWrite(p)
    \/ MessageGetUpdated(p)
    \/ \E sessionId \in {""} : CompleteReject(p, sessionId)
    \/ \E sessionId \in Addressable : CompleteGetSession(p, sessionId)
    \/ CompleteSetAnalyzing(p)
    \/ CompleteSaveAnalysis(p)
    \/ CompleteGatewayFails(p)
    \/ CompleteSetCompleted(p)
    \/ CompleteGetUpdated(p)
    \/ \E sessionId \in Addressable : ReadSession(p, sessionId)
    \/ Return(p)

Spec == Init /\ [][Next]_vars

(***************************************************************************)
(* Message and Get-session requests only, on the store an earlier run      *)
(* left: the runs in which Message requests race on one session.           *)
(***************************************************************************)
InitRacing ==
  /\ sessions = HistorySessions
  /\ messages = HistoryMessages
  /\ now = 6
  /\ proc = [p \in Handlers |-> IdleProc]
  /\ known = {HistoryId}
  /\ budget = MaxRacing
  /\ client = Home

NextRacing ==
  \E p \in Handlers :
    \/ \E sessionId \in Addressable, message \in MessageInputs, isWrapUp \in BOOLEAN :
         MessageGetSession(p, sessionId, message, isWrapUp)
    \/ MessageSaveUser(p)
    \/ MessageSaveAssistant(p)
    \/ MessageGatewayFails(p)
    \/ MessageCostFetch(p)
    \/ MessageCostWrite(p)
    \/ MessageGetUpdated(p)
    \/ \E sessionId \in Addressable : ReadSession(p, sessionId)
    \/ Return(p)

SpecRacing == InitRacing /\ [][NextRacing]_vars

(***************************************************************************)
(* Message and Get-session requests on a stored interview of any length up *)
(* to MaxExchanges exchanges: StoreSessions(k) and StoreMessages(k) are    *)
(* the tables after a student started an interview and exchanged k         *)
(* messages with the interviewer, one request after the other.             *)
(***************************************************************************)
RECURSIVE StoreSessions(_)
StoreSessions(k) ==
  IF k = 0
  THEN update_updated_at(
         updateSessionStatus(
           savePlan(createSession(<<>>, HistoryId, FIXED_TOPIC, "student", 0),
                    HistoryId, getInterviewPlanForRole("student")),
           HistoryId, "interviewing"),
         HistoryId, 2)
  ELSE LET before == StoreSessions(k - 1)
           chars == Len("Hi") + Len(HistoryReply)
       IN update_updated_at(
            updateCostWrite(before, HistoryId, Get(updateCostFetch(before, HistoryId)),
                            MathRoundQuarter(chars), calculateCost(chars, DEFAULT_MODEL)),
            HistoryId, 2 * k + 2)

RECURSIVE StoreMessages(_)
StoreMessages(k) ==
  IF k = 0
  THEN saveMessage(
         saveMessage([id \in SessionIds |-> <<>>], HistoryId,
           [role |-> "system",
            content |-> "You are conducting an interview about AI use in education. The interviewee is a student. Your objectives are: "
                        \o Join(getInterviewPlanForRole("student").objectives, ", "),
            timestamp |-> 0]),
         HistoryId,
         [role |-> "assistant",
          content |-> ROLE_GREETINGS["student"] \o "\n\n" \o getFirstQuestionForRole("student"),
          timestamp |-> 1])
  ELSE saveMessage(
         saveMessage(StoreMessages(k - 1), HistoryId,
           [role |-> "user", content |-> "Hi", timestamp |-> 2 * k]),
         HistoryId,
         [role |-> "assistant", content |-> HistoryReply, timestamp |-> 2 * k + 1])

InitStored ==
  \E k \in 0..MaxExchanges :
    /\ sessions = StoreSessions(k)
    /\ messages = StoreMessages(k)
    /\ now = 2 * k + 2
    /\ proc = [p \in Handlers |-> IdleProc]
    /\ known = {HistoryId}
    /\ budget = MaxMessages
    /\ client = Home

SpecStored == InitStored /\ [][NextRacing]_vars

(***************************************************************************)
(* Every request but Start.  The store is either the one an                *)
(* earlier run left after two exchanges, or the one left by a Start        *)
(* request that ended between createSession and savePlan: a session in     *)
(* status planning without plan and without messages.  A request may carry *)
(* any string as sessionId, the id of that session too.                    *)
(***************************************************************************)
PlanlessSessions == createSession(<<>>, HistoryId, FIXED_TOPIC, "student", 0)

InitPlanless ==
  /\ sessions = PlanlessSessions
  /\ messages = [id \in SessionIds |-> <<>>]
  /\ now = 0
  /\ proc = [p \in Handlers |-> IdleProc]
  /\ known = {HistoryId}
  /\ budget = MaxMessages
  /\ client = Home

InitCompleting == InitPlanless \/ InitHistory

NextCompleting ==
  \E p \in Handlers :
    \/ \E sessionId \in Addressable \cup {""}, message \in MessageInputs :
         MessageReject(p, sessionId, message)
    \/ \E sessionId \in Addressable, message \in MessageInputs, isWrapUp \in BOOLEAN :
         MessageGetSession(p, sessionId, message, isWrapUp)
    \/ MessageSaveUser(p)
    \/ MessageSaveAssistant(p)
    \/ MessageGatewayFails(p)
    \/ MessageCostFetch(p)
    \/ MessageCostWrite(p)
    \/ MessageGetUpdated(p)
    \/ \E sessionId \in Addressable \cup {""} : CompleteReject(p, sessionId)
    \/ \E sessionId \in Addressable : CompleteGetSession(p, sessionId)
    \/ CompleteSetAnalyzing(p)
    \/ CompleteSaveAnalysis(p)
    \/ CompleteGatewayFails(p)
    \/ CompleteSetCompleted(p)
    \/ CompleteGetUpdated(p)
    \/ \E sessionId \in Addressable : ReadSession(p, sessionId)
    \/ Return(p)

SpecCompleting == InitCompleting /\ [][NextCompleting]_vars

(***************************************************************************)
(* Two sessions.  The store holds the interview an earlier run left, under *)
(* the id OtherId, and the server creates, serves and completes a second   *)
(* session next to it.                                                     *)
(***************************************************************************)
OtherId == "session_2"

InitPair ==
  /\ sessions = [i \in {OtherId} |-> HistorySessions[HistoryId]]
  /\ messages = [id \in SessionIds \cup {OtherId} |->
                   IF id = OtherId THEN HistoryMessages[HistoryId] ELSE <<>>]
  /\ now = 6
  /\ proc = [p \in Handlers |-> IdleProc]
  /\ known = {OtherId}
  /\ budget = MaxMessages
  /\ client = Home

\* the requests that pass the checks of their routes
NextPair ==
  \E p \in Handlers :
    \/ StartCreate(p, "student")
    \/ StartSavePlan(p)
    \/ StartSaveSystem(p)
    \/ StartSaveGreeting(p)
    \/ StartSetStatus(p)
    \/ StartGetSession(p)
    \/ \E sessionId \in known : MessageGetSession(p, sessionId, "Hi", FALSE)
    \/ MessageSaveUser(p)
    \/ MessageSaveAssistant(p)
    \/ MessageGatewayFails(p)
    \/ MessageCostFetch(p)
    \/ MessageCostWrite(p)
    \/ MessageGetUpdated(p)
    \/ \E sessionId \in known \ {OtherId} : CompleteGetSession(p, sessionId)
    \/ CompleteSetAnalyzing(p)
    \/ CompleteSaveAnalysis(p)
    \/ CompleteSetCompleted(p)
    \/ CompleteGetUpdated(p)
    \/ Return(p)

SpecPair == InitPair /\ [][NextPair]_vars

(***************************************************************************)
(* The page (Home), listed in SPEC.md from line 880: one browser and the   *)
(* server, which serves no other client, so that each request runs from    *)
(* its first store call to its response with no other request in between.  *)
(* The user picks the Student card.                                        *)
(***************************************************************************)
TARGET_DURATION_MS == 600000
IDLE_NUDGE_MS == 120000
MIN_EXCHANGES_FOR_COMPLETION == 8

\* a wrap-up rule that looks at the elapsed time only
shouldWrapUp_TimeOnly(interviewStartTime, session, dateNow) ==
  /\ ~IsNull(interviewStartTime)
  /\ ~IsNull(session)
  /\ dateNow - Get(interviewStartTime) >= TARGET_DURATION_MS

\* shouldWrapUp(), with Date.now() as dateNow
shouldWrapUp(interviewStartTime, session, dateNow) ==
  IF IsNull(interviewStartTime) \/ Get(interviewStartTime) = 0 \/ IsNull(session)
  THEN FALSE
  ELSE LET elapsed == dateNow - Get(interviewStartTime)
           userMessages == Len(SelectSeq(Get(session).transcript,
                                         LAMBDA m : m.role = "user"))
       IN elapsed >= TARGET_DURATION_MS \/ userMessages >= MIN_EXCHANGES_FOR_COMPLETION

\* the idle-detection effect, run after a render in which session or loading
\* changed: the pending timeout is cleared, and a new one is set unless there
\* is no interview going on or a request is in flight
idleEffect(c) ==
  [c EXCEPT !.idleTimer =
     IF IsNull(c.session) \/ Get(c.session).status # "interviewing" \/ c.loading
     THEN Null ELSE Some(c.clock)]

\* time passes in the browser
ClientTick ==
  /\ client.clock + IDLE_NUDGE_MS <= 1 + MaxTicks * IDLE_NUDGE_MS
  /\ client' = [client EXCEPT !.clock = @ + IDLE_NUDGE_MS]
  /\ UNCHANGED <<sessions, messages, now, proc, known, budget>>

\* the idle timeout fires: setShowIdleNudge(true)
ClientIdleNudge ==
  /\ ~IsNull(client.idleTimer)
  /\ client.clock - Get(client.idleTimer) >= IDLE_NUDGE_MS
  /\ client' = [client EXCEPT !.showIdleNudge = TRUE, !.idleTimer = Null]
  /\ UNCHANGED <<sessions, messages, now, proc, known, budget>>

\* startInterview('student'): the Start route runs on the empty store and
\* its response is taken
ClientStartInterview ==
  /\ IsNull(client.session) /\ ~client.loading
  /\ sessions = <<>>
  /\ sessions' = StoreSessions(0)
  /\ messages' = StoreMessages(0)
  /\ now' = now + 2
  /\ known' = known \cup {HistoryId}
  /\ \E data \in getSession(sessions', messages', HistoryId) :
       client' = idleEffect([client EXCEPT !.session = data,
                                           !.interviewStartTime = Some(client.clock)])
  /\ UNCHANGED <<proc, budget>>

\* sendMessage(), up to the fetch: the wrap-up decision, the optimistic
\* user message, the request
ClientSendMessage(userMessage) ==
  /\ ~IsNull(client.session) /\ ~client.loading
  /\ Get(client.session).status = "interviewing"
  /\ userMessage # ""
  /\ budget > 0
  /\ budget' = budget - 1
  /\ LET session == Get(client.session)
         enterWrapUp == ~client.isWrapUpMode
                        /\ shouldWrapUp(client.interviewStartTime, client.session, client.clock)
         tempUserMessage == [role |-> "user", content |-> userMessage,
                             timestamp |-> client.clock]
     IN client' = idleEffect(
          [client EXCEPT
             !.loading = TRUE,
             !.showIdleNudge = FALSE,
             !.isWrapUpMode = IF enterWrapUp THEN TRUE ELSE @,
             !.session = Some([session EXCEPT !.transcript = Append(@, tempUserMessage)]),
             !.pending = Some([sessionId |-> session.id, message |-> userMessage,
                               isWrapUp |-> enterWrapUp, session |-> session])])
  /\ UNCHANGED <<sessions, messages, now, proc, known>>

\* the Message route serves the request and answers 200; sendMessage takes
\* data.session
ClientMessageAnswered ==
  /\ ~IsNull(client.pending)
  /\ LET request == Get(client.pending)
         id == request.sessionId
     IN /\ \E read \in getSession(sessions, messages, id) :
             ~IsNull(read) /\ MessageStateOk(Get(read)) /\ ~IsNull(Get(read).plan)
        /\ \E text \in GatewayReplies :
             LET chars == estimatedChars(request.message, text)
                 saved == saveMessage(messages, id,
                            [role |-> "user", content |-> request.message,
                             timestamp |-> now])
             IN /\ messages' = saveMessage(saved, id,
                                  [role |-> "assistant", content |-> text,
                                   timestamp |-> now + 1])
                /\ sessions' = update_updated_at(
                                  updateCostWrite(sessions, id,
                                    Get(updateCostFetch(sessions, id)),
                                    MathRoundQuarter(chars),
                                    calculateCost(chars, DEFAULT_MODEL)),
                                  id, now + 2)
        /\ now' = now + 2
        /\ \E data \in getSession(sessions', messages', id) :
             client' = idleEffect(
               [client EXCEPT !.session = data, !.loading = FALSE, !.pending = Null,
                              !.showWrapUpPrompt = IF request.isWrapUp THEN TRUE ELSE @])
  /\ UNCHANGED <<proc, known, budget>>

\* the Message route saves the user message, the Gateway call throws and
\* the route answers 500 with {error}: data.session and data.message are
\* undefined and sendMessage keeps the session it has
ClientMessageRejected ==
  /\ ~IsNull(client.pending)
  /\ client.faults < MaxFaults
  /\ LET request == Get(client.pending)
         id == request.sessionId
     IN /\ messages' = saveMessage(messages, id,
                          [role |-> "user", content |-> request.message,
                           timestamp |-> now])
        /\ now' = now + 1
        /\ client' = idleEffect(
             [client EXCEPT !.loading = FALSE, !.pending = Null, !.faults = @ + 1,
                            !.showWrapUpPrompt = IF request.isWrapUp THEN TRUE ELSE @])
  /\ UNCHANGED <<sessions, proc, known, budget>>

\* fetch rejects before the request reaches the server: the catch block of
\* sendMessage, whose session is the one the call closed over
ClientMessageThrows ==
  /\ ~IsNull(client.pending)
  /\ client.faults < MaxFaults
  /\ LET request == Get(client.pending)
         session == request.session
     IN client' = idleEffect(
          [client EXCEPT
             !.session = Some([session EXCEPT
                                 !.transcript = SubSeq(@, 1, Len(@) - 1)]),
             !.isWrapUpMode = IF request.isWrapUp THEN FALSE ELSE @,
             !.loading = FALSE, !.pending = Null, !.faults = @ + 1])
  /\ UNCHANGED <<sessions, messages, now, proc, known, budget>>

\* completeInterview(): the Complete route runs and its response is taken
ClientCompleteInterview ==
  /\ ~IsNull(client.session) /\ ~client.loading
  /\ Get(client.session).status = "interviewing"
  /\ LET id == Get(client.session).id
     IN \E read \in getSession(sessions, messages, id) :
          /\ ~IsNull(read) /\ CompleteAccepts(Get(read))
          /\ \E run \in analyzeInterview(Get(read).role, Get(read).transcript) :
               sessions' = update_updated_at(
                             updateSessionStatus(
                               saveAnalysis(updateSessionStatus(sessions, id, "analyzing"),
                                            id, run.analysis),
                               id, "completed"),
                             id, now)
          /\ \E data \in getSession(sessions', messages, id) :
               client' = idleEffect([client EXCEPT !.session = data])
  /\ UNCHANGED <<messages, now, proc, known, budget>>

\* startNewInterview(), pressed while no request of the page is pending:
\* the page goes back to the role selection
ClientStartNewInterview ==
  /\ ~IsNull(client.session) /\ ~client.loading
  /\ client' = idleEffect([client EXCEPT !.session = Null,
                                         !.interviewStartTime = Null,
                                         !.showWrapUpPrompt = FALSE,
                                         !.showIdleNudge = FALSE,
                                         !.isWrapUpMode = FALSE])
  /\ UNCHANGED <<sessions, messages, now, proc, known, budget>>

InitClient ==
  /\ sessions = <<>>
  /\ messages = [id \in SessionIds |-> <<>>]
  /\ now = 0
  /\ proc = [p \in Handlers |-> IdleProc]
  /\ known = {}
  /\ budget = MaxSends
  /\ client = Home

NextClient ==
  \/ ClientTick
  \/ ClientIdleNudge
  \/ ClientStartInterview
  \/ \E userMessage \in MessageInputs : ClientSendMessage(userMessage)
  \/ ClientMessageAnswered
  \/ ClientMessageRejected
  \/ ClientMessageThrows
  \/ ClientCompleteInterview
  \/ ClientStartNewInterview

SpecClient == InitClient /\ [][NextClient]_vars

(***************************************************************************)
(* Properties.                                                             *)
(***************************************************************************)
StatusOrder == <<"planning", "interviewing", "analyzing", "completed">>
StatusRank(status) == CHOOSE i \in DOMAIN StatusOrder : StatusOrder[i] = status

\* the handler p takes a request in this step
Accepts(p) == proc[p].pc = "idle" /\ proc'[p].pc # "idle"

\* C1: no step moves the stored status of a session from a later value of
\* planning, interviewing, analyzing, completed back to an earlier one.
C1_StatusNeverMovesBack ==
  [][\A s \in DOMAIN sessions :
       StatusRank(sessions'[s].status) >= StatusRank(sessions[s].status)]_vars

\* C2: a Complete request that finds the session completed is rejected: no
\* Complete handler goes on to its writes with a session it read as completed.
C2_CompletedIsRejected ==
  \A p \in Handlers :
    (proc[p].op = "complete" /\ ~IsNull(proc[p].session))
      => Get(proc[p].session).status # "completed"

\* C3: a Message request with both fields present is answered 404 when no
\* session has its id and 400 when the session's status is not interviewing,
\* and the step that rejects it leaves both tables of the store as they were.
C3_MessageRejected ==
  [][\A p \in Handlers :
       LET r == proc'[p]
       IN (Accepts(p) /\ r.op = "message" /\ r.sessionId # "" /\ r.message # "")
            => /\ r.sessionId \notin DOMAIN sessions
                    => (r.pc = "respond" /\ r.code = 404)
               /\ (r.sessionId \in DOMAIN sessions
                    /\ sessions[r.sessionId].status # "interviewing")
                    => (r.pc = "respond" /\ r.code = 400)
               /\ r.pc = "respond" => (sessions' = sessions /\ messages' = messages)]_vars

\* C3 happens: one Message request was answered 404 for an unknown id, and
\* another 400 on a session that is analyzing or completed.
C3_Witness ==
  \E p, q \in Handlers :
    /\ proc[p].pc = "respond" /\ proc[p].op = "message" /\ proc[p].code = 404
    /\ proc[p].message # "" /\ proc[p].sessionId \notin DOMAIN sessions
    /\ proc[q].pc = "respond" /\ proc[q].op = "message" /\ proc[q].code = 400
    /\ proc[q].message # "" /\ proc[q].sessionId \in DOMAIN sessions
    /\ sessions[proc[q].sessionId].status \in {"analyzing", "completed"}

\* the transcripts getSession may return for session s, before and after a step
Reads(s) == {Get(r).transcript : r \in getSession(sessions, messages, s)}
ReadsAfter(s) == {Get(r).transcript : r \in getSession(sessions', messages', s)}

\* transcript t is transcript u with one message of that role and content added last
Appended(t, u, role, content) ==
  /\ Len(t) = Len(u) + 1
  /\ SubSeq(t, 1, Len(u)) = u
  /\ t[Len(t)].role = role
  /\ t[Len(t)].content = content

\* C4: the steps of a Message request that write to the store append the
\* user message and then the assistant reply after all messages the
\* transcript holds, leave status and plan as they were, and never lower the
\* stored cost tokens or cost amount.
C4_MessageAppends ==
  [][\A p \in Handlers :
       LET s == proc[p].sessionId
       IN /\ (proc[p].pc = "m_saveUser" /\ proc'[p].pc # "m_saveUser")
               => \A t \in ReadsAfter(s) :
                    \E u \in Reads(s) : Appended(t, u, "user", proc[p].message)
          /\ (proc[p].pc = "m_gateway" /\ proc'[p].pc = "m_costFetch")
               => \A t \in ReadsAfter(s) :
                    \E u \in Reads(s) :
                      Appended(t, u, "assistant", proc'[p].assistantResponse)
          /\ (proc[p].pc = "m_costWrite" /\ proc'[p].pc # "m_costWrite")
               => /\ sessions'[s].cost_tokens >= sessions[s].cost_tokens
                  /\ sessions'[s].cost_amount >= sessions[s].cost_amount
                  /\ sessions'[s].status = sessions[s].status
                  /\ sessions'[s].plan = sessions[s].plan]_vars

\* a handler is idle: a Get-session request can be served
CanRead == \E p \in Handlers : proc[p].pc = "idle"

\* C5: a transcript Get-session may return before a step is a prefix of every
\* transcript it may return after the step.
C5_ReadsArePrefixes ==
  [][\A s \in DOMAIN sessions :
       (CanRead /\ CanRead')
         => \A t \in Reads(s), u \in ReadsAfter(s) : IsPrefix(t, u)]_vars

\* C6: no step lowers the stored cost tokens or the stored cost amount.
C6_CostNeverDecreases ==
  [][\A s \in DOMAIN sessions :
       /\ sessions'[s].cost_tokens >= sessions[s].cost_tokens
       /\ sessions'[s].cost_amount >= sessions[s].cost_amount]_vars

\* C7: when Start has answered 200, what getSession returns for the session
\* it created has status interviewing, the plan of the role, and a transcript
\* of two messages: the system message listing the objectives of the plan,
\* then the assistant message made of the greeting of the role and the first
\* question of the plan.
C7_StartReturns ==
  \A p \in Handlers :
    (proc[p].pc = "respond" /\ proc[p].op = "start" /\ proc[p].code = 200)
      => \A r \in getSession(sessions, messages, proc[p].sessionId) :
           /\ ~IsNull(r)
           /\ LET role == proc[p].role
                  plan == INTERVIEW_PLANS[role]
                  transcript == Get(r).transcript
              IN /\ Get(r).status = "interviewing"
                 /\ Get(r).plan = Some(plan)
                 /\ Len(transcript) = 2
                 /\ transcript[1].role = "system"
                 /\ transcript[1].content =
                      "You are conducting an interview about AI use in education. The interviewee is a "
                      \o role \o ". Your objectives are: " \o plan.objectives[1] \o ", "
                      \o plan.objectives[2] \o ", " \o plan.objectives[3] \o ", "
                      \o plan.objectives[4]
                 /\ transcript[2].role = "assistant"
                 /\ transcript[2].content =
                      ROLE_GREETINGS[role] \o "\n\n" \o plan.questions[1]

\* C7 happens: a Start request was answered 200.
C7_Witness ==
  \E p \in Handlers :
    /\ proc[p].pc = "respond" /\ proc[p].op = "start" /\ proc[p].code = 200
    /\ proc[p].sessionId \in DOMAIN sessions

\* the plan and the role getSession returns for session s of the sessions
\* table ss: they are taken from the row, whatever the messages are
ReadOf(ss, s) == buildSession(s, Get(getSessionRow(ss, s)), <<>>)

\* C8: once getSession returns a plan for a session, the plan is the static
\* plan of the session's role, and every step leaves it as it is.
C8_PlanNeverChanges ==
  [][\A s \in DOMAIN sessions :
       ~IsNull(ReadOf(sessions, s).plan)
         => /\ ReadOf(sessions, s).plan = Some(INTERVIEW_PLANS[ReadOf(sessions, s).role])
            /\ ReadOf(sessions', s).plan = ReadOf(sessions, s).plan]_vars

\* C8 happens: a session with a plan has gone through a Message and a
\* Complete request.
C8_Witness ==
  \E s \in DOMAIN sessions :
    /\ ~IsNull(sessions[s].plan)
    /\ sessions[s].status = "completed"
    /\ budget < MaxMessages
    /\ ~IsNull(sessions[s].analysis)

\* C9: a Start request whose role is missing or is none of student,
\* instructor, researcher, staff is answered 400 in a step that leaves both
\* tables of the store as they were.
C9_StartRejected ==
  [][\A p \in Handlers :
       LET r == proc'[p]
       IN (Accepts(p) /\ r.op = "start"
           /\ r.role \notin {"student", "instructor", "researcher", "staff"})
            => /\ r.pc = "respond" /\ r.code = 400
               /\ sessions' = sessions
               /\ messages' = messages]_vars

\* C9 happens: a Start request without a role and one with an unknown role
\* were answered.
C9_Witness ==
  \E p, q \in Handlers :
    /\ proc[p].pc = "respond" /\ proc[p].op = "start" /\ proc[p].role = ""
    /\ proc[q].pc = "respond" /\ proc[q].op = "start" /\ proc[q].role = "admin"

\* C10: a Complete request that read a transcript with n < 3 user messages
\* stores an analysis with depthScore 0 and completionRate 0 when n = 0, and
\* with depthScore 1 and completionRate min(0.2, n / 10) when n is 1 or 2
\* (in hundredths: 10, 20); its next step sets the status to completed and
\* leaves the stored analysis as it is.
C10_EngagementGating ==
  [][\A p \in Handlers :
       LET s == proc[p].sessionId
       IN /\ (proc[p].pc = "c_analyze" /\ proc'[p].pc # "c_analyze")
               => LET read == Get(proc[p].session).transcript
                      n == Cardinality({i \in DOMAIN read : read[i].role = "user"})
                  IN n < 3
                       => /\ proc'[p].pc = "c_setCompleted"
                          /\ ~IsNull(sessions'[s].analysis)
                          /\ Get(sessions'[s].analysis).depthScore = IF n = 0 THEN 0 ELSE 1
                          /\ Get(sessions'[s].analysis).completionRate =
                               IF n = 0 THEN 0 ELSE IF n = 1 THEN 10 ELSE 20
          /\ (proc[p].pc = "c_setCompleted" /\ proc'[p].pc # "c_setCompleted")
               => /\ sessions'[s].status = "completed"
                  /\ sessions'[s].analysis = sessions[s].analysis]_vars

\* C10 happens: a Complete request that read two user messages has stored its
\* analysis and set the status.
C10_Witness ==
  \E p \in Handlers :
    /\ proc[p].pc = "c_getSession"
    /\ sessions[proc[p].sessionId].status = "completed"
    /\ ~IsNull(sessions[proc[p].sessionId].analysis)
    /\ Get(sessions[proc[p].sessionId].analysis).depthScore = 1
    /\ Get(sessions[proc[p].sessionId].analysis).completionRate = 20

\* C11: a Complete request calls the Gateway exactly once when the transcript
\* it read has three or more user messages and not at all when it has 0, 1 or
\* 2: the count of its calls is set by the step that leaves the analysis
\* (to 1 or to 0 by that number) and no other step of the request changes it.
C11_GatewayOnlyFromThree ==
  [][\A p \in Handlers :
       proc[p].op = "complete" /\ proc'[p].op = "complete"
         => IF proc[p].pc = "c_analyze" /\ proc'[p].pc # "c_analyze"
            THEN LET read == Get(proc[p].session).transcript
                     n == Cardinality({i \in DOMAIN read : read[i].role = "user"})
                 IN /\ proc[p].invocations = 0
                    /\ proc'[p].invocations = IF n >= 3 THEN 1 ELSE 0
            ELSE proc'[p].invocations = proc[p].invocations]_vars

\* C11 happens: a Complete request has called the Gateway and stored the
\* analysis, and is about to set the status.
C11_Witness ==
  \E p \in Handlers :
    /\ proc[p].op = "complete"
    /\ proc[p].pc = "c_setCompleted"
    /\ proc[p].invocations = 1
    /\ ~IsNull(sessions[proc[p].sessionId].analysis)

\* no candidate of the text parses: not the content of a fenced block, not
\* a brace span, not the text itself
NoJsonIn(content) ==
  /\ IsNull(JSONparse(content))
  /\ IsNull(MatchFence(content)) \/ IsNull(JSONparse(Get(MatchFence(content))[2]))
  /\ IsNull(MatchBraces(content)) \/ IsNull(JSONparse(Get(MatchBraces(content))[1]))

\* C12: when the Gateway's answer to a Complete request holds no JSON that
\* parses, the request does not fail: it stores the fallback analysis with
\* depthScore 3 and completionRate 0.8 (80 hundredths), then sets the status
\* to completed and answers 200.
C12_UnparseableAnalysisFallsBack ==
  [][\A p \in Handlers :
       LET s == proc[p].sessionId
       IN /\ (proc[p].pc = "c_analyze" /\ proc'[p].pc # "c_analyze"
               /\ ~IsNull(proc'[p].content) /\ NoJsonIn(Get(proc'[p].content)))
               => /\ proc'[p].pc = "c_setCompleted"
                  /\ ~IsNull(sessions'[s].analysis)
                  /\ Get(sessions'[s].analysis).depthScore = 3
                  /\ Get(sessions'[s].analysis).completionRate = 80
          /\ (proc[p].pc = "c_setCompleted" /\ proc'[p].pc # "c_setCompleted")
               => /\ proc'[p].pc = "c_getSession"
                  /\ sessions'[s].status = "completed"
                  /\ sessions'[s].analysis = sessions[s].analysis
          /\ (proc[p].pc = "c_getSession" /\ proc'[p].pc # "c_getSession")
               => proc'[p].pc = "respond" /\ proc'[p].code = 200]_vars

\* C12 happens: the Gateway answered a Complete request with prose only, and
\* the fallback analysis is stored.
C12_Witness ==
  \E p \in Handlers :
    /\ proc[p].pc = "c_setCompleted"
    /\ proc[p].content = Some(<<"prose">>)
    /\ Get(sessions[proc[p].sessionId].analysis).depthScore = 3

C14_CompleteRejected ==
  [][\A p \in Handlers :
       (proc[p].pc = "idle" /\ proc'[p].op = "complete")
         => LET s == proc'[p].sessionId
                rejected == s = "" \/ s \notin DOMAIN sessions \/ IsNull(sessions[s].plan)
            IN rejected
                 => /\ proc'[p].pc = "respond"
                    /\ proc'[p].code = IF s = "" THEN 400
                                       ELSE IF s \notin DOMAIN sessions THEN 404 ELSE 500
                    /\ sessions' = sessions
                    /\ messages' = messages]_vars

\* C14 happens: a Complete request naming the session without plan is
\* answered 500 and the session is still in status planning.
C14_Witness ==
  \E p \in Handlers :
    /\ proc[p].op = "complete" /\ proc[p].pc = "respond" /\ proc[p].code = 500
    /\ proc[p].invocations = 0
    /\ proc[p].sessionId \in DOMAIN sessions
    /\ IsNull(sessions[proc[p].sessionId].plan)
    /\ sessions[proc[p].sessionId].status = "planning"
    /\ IsNull(sessions[proc[p].sessionId].analysis)

\* the last Min(k, Len(array)) elements of array, in order
LastOf(array, k) ==
  LET n == Len(array)
      m == Min(k, n)
  IN [i \in 1..m |-> array[n - m + i]]

\* C15: the conversation a Message request puts in its prompt has at most 10
\* entries and is the last min(10, n) entries, in order, of the n entries
\* (role and content) of the transcript the request read.
C15_PromptHistoryIsLastTen ==
  [][\A p \in Handlers :
       (proc[p].pc = "m_gateway" /\ proc'[p].pc = "m_costFetch")
         => LET read == Get(proc[p].session).transcript
                entries == [i \in DOMAIN read |->
                              [role |-> read[i].role, content |-> read[i].content]]
            IN /\ ~IsNull(proc'[p].historyContext)
               /\ Len(Get(proc'[p].historyContext)) <= 10
               /\ Get(proc'[p].historyContext) = LastOf(entries, 10)]_vars

\* C15 happens: a request that read more than 10 entries has called the
\* Gateway with a prompt of 10 entries, the first of them a user message.
C15_Witness ==
  \E p \in Handlers :
    /\ proc[p].pc = "m_costFetch"
    /\ ~IsNull(proc[p].historyContext)
    /\ Len(Get(proc[p].historyContext)) = 10
    /\ Len(messages[proc[p].sessionId]) > 12
    /\ Get(proc[p].historyContext)[1].role = "user"

\* C16: a Message request calls the Gateway at most once: not before its
\* Gateway step, once in that step, through generateWrapUpResponse when
\* isWrapUp is true and through generateInterviewResponse otherwise, and in no
\* later step; when the call fails the request is answered 500 by that same
\* step, without another call and without a write.
C16_OneGatewayCallPerMessage ==
  [][\A p \in Handlers :
       (proc[p].op = "message" /\ proc'[p].op = "message")
         => /\ proc'[p].invocations <= 1
            /\ IF proc[p].pc = "m_gateway" /\ proc'[p].pc # "m_gateway"
               THEN /\ proc[p].invocations = 0
                    /\ proc'[p].invocations = 1
                    /\ proc'[p].invoked = IF proc[p].isWrapUp THEN "generateWrapUpResponse"
                                          ELSE "generateInterviewResponse"
                    /\ proc'[p].pc = "m_costFetch"
                        \/ /\ proc'[p].pc = "respond" /\ proc'[p].code = 500
                           /\ sessions' = sessions /\ messages' = messages
               ELSE /\ proc'[p].invocations = proc[p].invocations
                    /\ proc'[p].invoked = proc[p].invoked]_vars

\* C16 happens: a Message request sent with isWrapUp whose one call of the
\* Gateway failed is answered 500.
C16_Witness ==
  \E p \in Handlers :
    /\ proc[p].op = "message" /\ proc[p].pc = "respond" /\ proc[p].code = 500
    /\ proc[p].invocations = 1
    /\ proc[p].invoked = "generateWrapUpResponse"

C18_FailedSendRestoresTranscript ==
  [][(~IsNull(client.pending) /\ IsNull(client'.pending)
      /\ LET id == Get(client.pending).sessionId
         IN Len(messages'[id]) < Len(messages[id]) + 2)
       => /\ ~client'.loading
          /\ ~IsNull(client'.session)
          /\ Get(client'.session).transcript = Get(client.pending).session.transcript]_vars

\* the value of the first candidate of the text that parses, the candidates
\* being the content of a fenced block, a brace span and the text itself
FirstParsing(content) ==
  LET fence == MatchFence(content)
      braces == MatchBraces(content)
  IN IF ~IsNull(fence) /\ ~IsNull(JSONparse(Get(fence)[2])) THEN JSONparse(Get(fence)[2])
     ELSE IF ~IsNull(braces) /\ ~IsNull(JSONparse(Get(braces)[1]))
     THEN JSONparse(Get(braces)[1])
     ELSE JSONparse(content)

\* C19: the analysis stored for a Gateway text is the value of the first of
\* its candidates (fenced block content, brace span, whole text) that parses,
\* and the fallback analysis only when none of them parses.
C19_FirstParsingCandidateWins ==
  [][\A p \in Handlers :
       (proc[p].pc = "c_analyze" /\ proc'[p].pc = "c_setCompleted"
        /\ ~IsNull(proc'[p].content))
         => LET content == Get(proc'[p].content)
                stored == Get(sessions'[proc[p].sessionId].analysis)
            IN IF IsNull(FirstParsing(content))
               THEN stored.depthScore = 3 /\ stored.completionRate = 80
               ELSE stored = Get(FirstParsing(content))]_vars

\* C20: every plan attached to a stored session has 3 to 5 objectives, 8 to
\* 12 questions and 3 to 5 focus areas.
C20_PlanSizes ==
  \A s \in DOMAIN sessions :
    ~IsNull(sessions[s].plan)
      => LET plan == Get(sessions[s].plan)
         IN /\ Len(plan.objectives) \in 3..5
            /\ Len(plan.questions) \in 8..12
            /\ Len(plan.focusAreas) \in 3..5

\* C21: a step that changes the status, plan, analysis or cost of a session,
\* or appends a message to its transcript, leaves updated_at no older than
\* the clock at that step.
C21_UpdatedAtFollowsChanges ==
  [][\A s \in DOMAIN sessions' :
       LET changed ==
             \/ s \notin DOMAIN sessions
             \/ sessions'[s].status # sessions[s].status
             \/ sessions'[s].plan # sessions[s].plan
             \/ sessions'[s].analysis # sessions[s].analysis
             \/ sessions'[s].cost_tokens # sessions[s].cost_tokens
             \/ sessions'[s].cost_amount # sessions[s].cost_amount
             \/ messages'[s] # messages[s]
       IN changed => sessions'[s].updated_at >= now]_vars

\* C22: a step of a request on one session leaves the row and the messages
\* of every other session as they were, whatever the other handler is doing.
C22_SessionsIndependent ==
  [][\A p \in Handlers :
       proc'[p] # proc[p]
         => LET a == IF proc[p].pc = "idle" THEN proc'[p].sessionId ELSE proc[p].sessionId
            IN \A b \in DOMAIN sessions \ {a} :
                 /\ b \in DOMAIN sessions'
                 /\ sessions'[b] = sessions[b]
                 /\ messages'[b] = messages[b]]_vars

\* C22 happens: a Complete request on the new session has set its status
\* while a Message request on the other session waits for the Gateway.
C22_Witness ==
  \E p, q \in Handlers :
    /\ proc[p].op = "complete" /\ proc[p].sessionId = HistoryId /\ proc[p].pc = "c_analyze"
    /\ proc[q].op = "message" /\ proc[q].sessionId = OtherId /\ proc[q].pc = "m_gateway"
    /\ sessions[HistoryId].status = "analyzing"
    /\ sessions[OtherId].status = "interviewing"

\* C23: the tokens a Message request adds to the cost it fetched are the
\* characters of the prompt it sent to the Gateway plus the characters of the
\* reply, divided by 4 and rounded to the nearest integer.
C23_TokensFromPromptAndReply ==
  [][\A p \in Handlers :
       (proc[p].pc = "m_costWrite" /\ proc'[p].pc = "m_getSession")
         => sessions'[proc[p].sessionId].cost_tokens
              = Get(proc[p].fetched).cost_tokens
                + (proc[p].promptChars + Len(proc[p].assistantResponse) + 2) \div 4]_vars

\* C24: the update of updateCost writes the totals its own select read plus
\* the increment, whatever another Message request on the session has written
\* in between; so two concurrent Message requests on one session can both
\* succeed while the stored cost tokens end below the value before plus the
\* two increments: one increment is lost.
C24_CostWriteUsesItsOwnRead ==
  [][\A p \in Handlers :
       (proc[p].pc = "m_costWrite" /\ proc'[p].pc = "m_getSession")
         => LET chars == estimatedChars(proc[p].message, proc[p].assistantResponse)
                written == sessions'[proc[p].sessionId]
            IN /\ written.cost_tokens
                    = Get(proc[p].fetched).cost_tokens + MathRoundQuarter(chars)
               /\ written.cost_amount
                    = Get(proc[p].fetched).cost_amount + calculateCost(chars, DEFAULT_MODEL)]_vars

\* two Message requests, and no third, have both answered 200 and the stored
\* cost tokens are the tokens before plus one increment only
C24_Witness ==
  /\ budget = MaxRacing - 2
  /\ \A p \in Handlers : /\ proc[p].pc = "respond"
                         /\ proc[p].op = "message"
                         /\ proc[p].code = 200
                         /\ proc[p].sessionId = HistoryId
  /\ LET before == HistorySessions[HistoryId].cost_tokens
         increment == MathRoundQuarter(estimatedChars("Hi", "Could you tell me more about that?"))
     IN /\ sessions[HistoryId].cost_tokens = before + increment
        /\ sessions[HistoryId].cost_tokens < before + increment + increment

\* the number of rows of the given role among the rows
RowsOfRole(rows, role) == Cardinality({i \in DOMAIN rows : rows[i].role = role})

\* handler p answers 500 to a Message request whose Gateway call threw
GatewayFailed(p) ==
  /\ proc[p].pc = "respond"
  /\ proc[p].op = "message"
  /\ proc[p].code = 500
  /\ proc[p].invoked # "none"

\* C25: a Message request whose Gateway call fails answers a server error;
\* no step of it writes the session row (status and cost stay as they were);
\* its user message stays in the transcript with no assistant reply after
\* it; and a Complete request that reads the session afterwards counts that
\* message among the user responses it analyses.
C25_GatewayFailureLeavesUserMessage ==
  [][\A p \in Handlers :
       LET s == proc[p].sessionId
       IN /\ (proc[p].pc = "m_saveUser" /\ proc'[p].pc = "m_gateway")
               => /\ sessions' = sessions
                  /\ messages'[s] = Append(messages[s],
                                       [role |-> "user", content |-> proc[p].message,
                                        timestamp |-> proc[p].mark])
          /\ (proc[p].pc = "m_gateway" /\ proc'[p].pc = "respond")
               => /\ proc'[p].code = 500
                  /\ sessions' = sessions
                  /\ messages' = messages
          /\ (GatewayFailed(p) /\ budget = MaxMessages - 1)
               => /\ messages[s] # <<>>
                  /\ messages[s][Len(messages[s])].role = "user"
                  /\ messages[s][Len(messages[s])].content = proc[p].message
                  /\ messages'[s] = messages[s]
          /\ (proc[p].pc = "idle" /\ proc'[p].pc = "c_setAnalyzing")
               => RowsOfRole(Get(proc'[p].session).transcript, "user")
                    = RowsOfRole(messages[proc'[p].sessionId], "user")
          /\ (proc[p].pc = "c_analyze" /\ proc'[p].pc = "c_setCompleted")
               => LET n == RowsOfRole(Get(proc[p].session).transcript, "user")
                      analysis == Get(sessions'[s].analysis)
                  IN IF n > 2 THEN proc'[p].invocations = 1
                     ELSE /\ proc'[p].invocations = 0
                          /\ analysis.depthScore = (IF n = 0 THEN 0 ELSE 1)
                          /\ analysis.completionRate = (IF n = 0 THEN 0 ELSE Min(20, n * 10))]_vars

\* a Message request on the session with two answered user messages failed
\* at the Gateway, and a Complete request that read the session afterwards
\* counted three user responses and asked the Gateway for the analysis
C25_Witness ==
  \E p, q \in Handlers :
    /\ GatewayFailed(p)
    /\ budget = MaxMessages - 1
    /\ proc[p].sessionId = HistoryId
    /\ RowsOfRole(messages[HistoryId], "user") = RowsOfRole(HistoryMessages[HistoryId], "user") + 1
    /\ RowsOfRole(messages[HistoryId], "assistant") = RowsOfRole(HistoryMessages[HistoryId], "assistant")
    /\ sessions[HistoryId].cost_tokens = HistorySessions[HistoryId].cost_tokens
    /\ proc[q].op = "complete"
    /\ proc[q].pc = "c_setCompleted"
    /\ proc[q].sessionId = HistoryId
    /\ proc[q].invocations = 1
    /\ RowsOfRole(HistoryMessages[HistoryId], "user") = 2

\* the transcript begins with the system message and the greeting of the role
BeginsWithOpening(transcript, role) ==
  /\ Len(transcript) >= 2
  /\ transcript[1].role = "system"
  /\ transcript[1].content = systemMessage(role, getInterviewPlanForRole(role), 0).content
  /\ transcript[2].role = "assistant"
  /\ transcript[2].content = greetingMessage(role, 0).content

\* C26: every session whose status is interviewing has a plan, and its
\* transcript, as stored and as every read returns it, begins with the
\* system message followed by the opening assistant message; no Message
\* request is answered with the missing-plan error.
C26_InterviewingHasPlanAndOpening ==
  /\ \A s \in DOMAIN sessions :
       sessions[s].status = "interviewing"
         => /\ ~IsNull(sessions[s].plan)
            /\ BeginsWithOpening(messages[s], sessions[s].role)
            /\ \A session \in getSession(sessions, messages, s) :
                 /\ ~IsNull(Get(session).plan)
                 /\ BeginsWithOpening(Get(session).transcript, sessions[s].role)
  /\ \A p \in Handlers :
       ~(/\ proc[p].pc = "respond" /\ proc[p].op = "message"
         /\ proc[p].code = 500 /\ proc[p].invoked = "none")

\* a Message request on a session Start created passed the plan check and
\* waits for the Gateway
C26_Witness ==
  \E p \in Handlers :
    /\ proc[p].pc = "m_gateway"
    /\ sessions[proc[p].sessionId].status = "interviewing"
    /\ sessions[proc[p].sessionId].role = "instructor"
    /\ HistorySessions[HistoryId].role # "instructor"
    /\ RowsOfRole(messages[proc[p].sessionId], "user") = 1

\* C27: a session whose status is completed has an analysis, and a session
\* that has an analysis has status analyzing or completed.
C27_AnalysisAndStatus ==
  \A s \in DOMAIN sessions :
    /\ sessions[s].status = "completed" => ~IsNull(sessions[s].analysis)
    /\ ~IsNull(sessions[s].analysis) => sessions[s].status \in {"analyzing", "completed"}

\* a Complete request has answered 200: the session is completed and has
\* the analysis saved while it was analyzing
C27_Witness ==
  \E p \in Handlers :
    /\ proc[p].pc = "respond"
    /\ proc[p].op = "complete"
    /\ proc[p].code = 200
    /\ sessions[proc[p].sessionId].status = "completed"
    /\ ~IsNull(sessions[proc[p].sessionId].analysis)

\* C28: when the Gateway call of a Complete request fails after the request
\* set the status to analyzing, the session is left analyzing with no
\* analysis stored; a Message request that finds the session analyzing is
\* rejected with 400, and a Complete request that finds it analyzing is
\* accepted.
C28_FailedCompleteLeavesAnalyzing ==
  [][\A p \in Handlers :
       /\ (proc[p].pc = "c_analyze" /\ proc'[p].pc = "respond")
            => /\ proc'[p].code = 500
               /\ sessions'[proc[p].sessionId].status = "analyzing"
               /\ IsNull(sessions'[proc[p].sessionId].analysis)
       /\ (/\ proc[p].pc = "idle" /\ proc'[p].op = "message"
           /\ proc'[p].sessionId \in DOMAIN sessions
           /\ proc'[p].message # ""
           /\ sessions[proc'[p].sessionId].status = "analyzing")
            => proc'[p].pc = "respond" /\ proc'[p].code = 400
       /\ (/\ proc[p].pc = "idle" /\ proc'[p].op = "complete"
           /\ proc'[p].sessionId \in DOMAIN sessions
           /\ sessions[proc'[p].sessionId].status = "analyzing")
            => proc'[p].pc = "c_setAnalyzing"]_vars

\* C29: once the status of a session is completed its transcript and its
\* cost no longer change, and the analysis a Complete request stores was
\* computed from the whole transcript stored at that moment, also when a
\* Message request that passed its status check is still running.
C29_CompletedIsFinal ==
  [][/\ \A s \in DOMAIN sessions :
          sessions[s].status = "completed"
            => /\ messages'[s] = messages[s]
               /\ sessions'[s].cost_tokens = sessions[s].cost_tokens
               /\ sessions'[s].cost_amount = sessions[s].cost_amount
     /\ \A p \in Handlers :
          (proc[p].pc = "c_analyze" /\ proc'[p].pc = "c_setCompleted")
            => Get(proc[p].session).transcript
                 \in getSessionMessages(messages, proc[p].sessionId)]_vars

\* a send of the page is over at this step; Failed: the server stored no
\* reply to it
SendOver == ~IsNull(client.pending) /\ IsNull(client'.pending)
SendFailed ==
  /\ SendOver
  /\ Len(messages'[Get(client.pending).sessionId])
       < Len(messages[Get(client.pending).sessionId]) + 2

\* C30: after a wrap-up send that was answered the page stays in wrap-up
\* mode, so no later send of the interview carries isWrapUp = true; the page
\* leaves wrap-up mode only when a wrap-up send failed or a new interview is
\* started; and a wrap-up send that failed leaves the page out of wrap-up
\* mode, so that the next send carries isWrapUp = true again.
C30_OneWrapUpPerInterview ==
  [][/\ (SendOver /\ ~SendFailed /\ Get(client.pending).isWrapUp)
          => client'.isWrapUpMode
     /\ (client.isWrapUpMode /\ IsNull(client.pending) /\ ~IsNull(client'.pending))
          => ~Get(client'.pending).isWrapUp
     /\ (client.isWrapUpMode /\ ~client'.isWrapUpMode)
          => \/ SendFailed /\ Get(client.pending).isWrapUp
             \/ ~IsNull(client.session) /\ IsNull(client'.session)
     /\ (SendFailed /\ Get(client.pending).isWrapUp)
          => ~client'.isWrapUpMode]_vars

====
